---- MODULE Spec2Model ----
(***************************************************************************)
(* Model of the image editor core of src/assignment3.py: the class         *)
(* ImageProcessor (its three image fields and the undo/redo stacks), the   *)
(* value class FilterSettings, and the event handlers of ImageEditorApp    *)
(* with the settings object and the four sliders they work on.             *)
(*                                                                         *)
(* An image (a numpy array of shape (h, w, 3), dtype uint8) is a record    *)
(*   [id |-> object identity, w |-> width, h |-> height,                   *)
(*    px |-> row-major sequence of w*h pixels, a pixel being a triple of   *)
(*           channel values in 0..255].                                    *)
(* Python's None is the record None (identity 0, no pixels).               *)
(***************************************************************************)
EXTENDS Integers, Sequences, FiniteSets, TLC

VARIABLES true_original, original_image, current_image, history, redo_stack,
          self_settings, sliders, op, ret, exc, before, rendered

vars == <<true_original, original_image, current_image, history, redo_stack,
          self_settings, sliders, op, ret, exc, before, rendered>>

\* ------------------------------------------------------------------ bounds
\* Longest undo history the model explores (the code has no limit).
MaxHist == 2

\* The number of quarter turns the preview specification follows.
MaxRot == 4

\* ------------------------------------------------------------ image values
None == [id |-> 0, w |-> 0, h |-> 0, px |-> <<>>]

Abs(n) == IF n < 0 THEN -n ELSE n

\* Pixel-identical: same dimensions and same pixels, whatever the objects.
Same(a, b) == a.w = b.w /\ a.h = b.h /\ a.px = b.px

\* Element-wise equality of two stacks of images.
SameSeq(s, t) ==
    /\ Len(s) = Len(t)
    /\ \A i \in 1..Len(s) : Same(s[i], t[i])

\* numpy.ndarray.copy(): a new object with the same content. copy_ of None
\* does not occur: every call site is guarded by the code.
copy_(img, newid) == [img EXCEPT !.id = newid]

At(img, x, y) == img.px[y * img.w + x + 1]

MkImage(newid, w, h, F(_, _)) ==
    [id |-> newid, w |-> w, h |-> h,
     px |-> [i \in 1..(w * h) |-> F((i - 1) % w, (i - 1) \div w)]]

\* The processor object as one value.
Self == [true_original |-> true_original, original_image |-> original_image,
         current_image |-> current_image, history |-> history,
         redo_stack |-> redo_stack]

\* Identities of the objects a processor state refers to.
Live(s) == {s.true_original.id, s.original_image.id, s.current_image.id}
             \cup {s.history[i].id : i \in 1..Len(s.history)}
             \cup {s.redo_stack[i].id : i \in 1..Len(s.redo_stack)}

\* The k-th object allocated by an operation started in state s: an identity
\* that no object alive at the start of the operation has.
RECURSIVE NthFree(_, _, _)
NthFree(used, k, n) ==
    IF n \in used THEN NthFree(used, k, n + 1)
    ELSE IF k = 1 THEN n ELSE NthFree(used, k - 1, n + 1)

Fresh(s, k) == NthFree(Live(s) \cup {0}, k, 1)

\* ---------------------------------------------------------- the file system
\* The files are the model's input pictures, given by their RGB colours; a
\* path without a decodable picture has none. The first picture is flat
\* enough for cv2.Canny to find no edge in it.
Files == {"wide.png", "dot.png", "missing.png"}

WidePx(x, y) == IF x = 0 THEN <<200, 100, 0>> ELSE <<100, 160, 10>>
DotPx(x, y) == <<64, 0, 255>>

\* Two more pictures for the preview pipeline: a 3 x 1 strip of white, black
\* and a dark colour, and a 2 x 2 grid of four colours.
StripPx(x, y) ==
    IF x = 0 THEN <<255, 255, 255>>
    ELSE IF x = 1 THEN <<0, 0, 0>> ELSE <<30, 60, 90>>
GridPx(x, y) == <<60 * x + 120 * y, 255 - 85 * x, 1 + 2 * y>>

PreviewFiles == {"wide.png", "dot.png", "strip.png", "grid.png"}

Picture(path) ==
    CASE path = "wide.png" -> MkImage(0, 2, 1, WidePx)
      [] path = "dot.png" -> MkImage(0, 1, 1, DotPx)
      [] path = "strip.png" -> MkImage(0, 3, 1, StripPx)
      [] path = "grid.png" -> MkImage(0, 2, 2, GridPx)
      [] OTHER -> None

\* cv2.cvtColor(img, COLOR_BGR2RGB) and COLOR_RGB2BGR: swap channels 1 and 3.
SwapRB(p) == <<p[3], p[2], p[1]>>

cvtColor_BGR2RGB(img, newid) ==
    [id |-> newid, w |-> img.w, h |-> img.h,
     px |-> [i \in 1..Len(img.px) |-> SwapRB(img.px[i])]]

\* cv2.imread(path): the picture as a new array in BGR channel order, or
\* None when the file is missing or cannot be decoded.
imread(path, newid) ==
    IF Picture(path) = None THEN None
    ELSE cvtColor_BGR2RGB(Picture(path), newid)

\* Result of a method call: the new processor state, the returned value and
\* whether the call raised.
Result(s, r, e) == [self |-> s, ret |-> r, exc |-> e]

\* --------------------------------------------------------- ImageProcessor
\* __init__
NewProcessor == [true_original |-> None, original_image |-> None,
                 current_image |-> None, history |-> <<>>,
                 redo_stack |-> <<>>]

\* load_file that forgets to reset redo_stack.
load_file_keeps_redo(s, file_path) ==
    LET image == imread(file_path, Fresh(s, 1)) IN
    IF image = None THEN Result(s, None, TRUE)
    ELSE
      LET t  == cvtColor_BGR2RGB(image, Fresh(s, 2))
          o  == copy_(t, Fresh(s, 3))
          c  == copy_(o, Fresh(s, 4))
      IN Result([true_original |-> t, original_image |-> o,
                 current_image |-> c, history |-> <<>>,
                 redo_stack |-> s.redo_stack], c, FALSE)

\* load_file that stores what imread returns before it converts it.
load_file_stores_first(s, file_path) ==
    LET image == imread(file_path, Fresh(s, 1)) IN
    IF image = None
    THEN Result([s EXCEPT !.true_original = None], None, TRUE)
    ELSE
      LET t  == cvtColor_BGR2RGB(image, Fresh(s, 2))
          o  == copy_(t, Fresh(s, 3))
          c  == copy_(o, Fresh(s, 4))
      IN Result([true_original |-> t, original_image |-> o,
                 current_image |-> c, history |-> <<>>,
                 redo_stack |-> <<>>], c, FALSE)

\* load_file: cv2.cvtColor raises on the None that imread returns for an
\* undecodable file, before any field is assigned.
load_file(s, file_path) ==
    LET image == imread(file_path, Fresh(s, 1)) IN
    IF image = None THEN Result(s, None, TRUE)
    ELSE
      LET t  == cvtColor_BGR2RGB(image, Fresh(s, 2))
          o  == copy_(t, Fresh(s, 3))
          c  == copy_(o, Fresh(s, 4))
      IN Result([true_original |-> t, original_image |-> o,
                 current_image |-> c, history |-> <<>>,
                 redo_stack |-> <<>>], c, FALSE)

\* revert_to_original that assigns the two images the wrong way round.
revert_overwrites_source(s) ==
    IF s.true_original = None THEN Result(s, None, FALSE)
    ELSE
      LET t == copy_(s.original_image, Fresh(s, 1)) IN
      Result([s EXCEPT !.true_original = t, !.history = <<>>,
                       !.redo_stack = <<>>], s.original_image, FALSE)

\* revert_to_original that forgets to reset the history.
revert_keeps_history(s) ==
    IF s.true_original = None THEN Result(s, None, FALSE)
    ELSE
      LET o == copy_(s.true_original, Fresh(s, 1)) IN
      Result([s EXCEPT !.original_image = o, !.redo_stack = <<>>], o, FALSE)

\* revert_to_original without the test for a loaded image.
revert_unguarded(s) ==
    LET o == copy_(s.true_original, Fresh(s, 1)) IN
    Result([s EXCEPT !.original_image = o, !.history = <<>>,
                     !.redo_stack = <<>>], o, FALSE)

\* revert_to_original that assigns true_original itself, not a copy of it.
revert_without_copy(s) ==
    IF s.true_original = None THEN Result(s, None, FALSE)
    ELSE Result([s EXCEPT !.original_image = s.true_original,
                          !.history = <<>>, !.redo_stack = <<>>],
                s.true_original, FALSE)

\* revert_to_original
revert_to_original(s) ==
    IF s.true_original = None THEN Result(s, None, FALSE)
    ELSE
      LET o == copy_(s.true_original, Fresh(s, 1)) IN
      Result([s EXCEPT !.original_image = o, !.history = <<>>,
                       !.redo_stack = <<>>], o, FALSE)

\* save_state_for_undo that forgets redo_stack.clear().
save_state_keeps_redo(s) ==
    IF s.original_image # None
    THEN [s EXCEPT !.history = Append(s.history,
                                      copy_(s.original_image, Fresh(s, 1)))]
    ELSE s

\* save_state_for_undo that assigns the history instead of appending to it.
save_state_drops_history(s) ==
    IF s.original_image # None
    THEN [s EXCEPT !.history = <<copy_(s.original_image, Fresh(s, 1))>>,
                   !.redo_stack = <<>>]
    ELSE s

\* save_state_for_undo without the test for a loaded image.
save_state_unguarded(s) ==
    [s EXCEPT !.history = Append(s.history,
                                 copy_(s.original_image, Fresh(s, 1))),
              !.redo_stack = <<>>]

\* save_state_for_undo (returns the new processor state only)
save_state_for_undo(s) ==
    IF s.original_image # None
    THEN [s EXCEPT !.history = Append(s.history,
                                      copy_(s.original_image, Fresh(s, 1))),
                   !.redo_stack = <<>>]
    ELSE s

Pop(stack) == SubSeq(stack, 1, Len(stack) - 1)
Top(stack) == stack[Len(stack)]

\* undo that puts the restored image, not the current one, on redo_stack.
undo_pushes_restored(s) ==
    IF s.history = <<>> THEN Result(s, None, FALSE)
    ELSE
      LET o == Top(s.history) IN
      Result([s EXCEPT !.redo_stack = Append(s.redo_stack,
                                             copy_(o, Fresh(s, 1))),
                       !.original_image = o,
                       !.history = Pop(s.history)], o, FALSE)

\* undo that hands back the current image when there is nothing to undo.
undo_returns_current(s) ==
    IF s.history = <<>> THEN Result(s, s.original_image, FALSE)
    ELSE
      LET o == Top(s.history) IN
      Result([s EXCEPT !.redo_stack = Append(s.redo_stack,
                                        copy_(s.original_image, Fresh(s, 1))),
                       !.original_image = o,
                       !.history = Pop(s.history)], o, FALSE)

\* undo that also replaces current_image by a copy of the restored image.
undo_writes_preview(s) ==
    IF s.history = <<>> THEN Result(s, None, FALSE)
    ELSE
      LET o == Top(s.history) IN
      Result([s EXCEPT !.redo_stack = Append(s.redo_stack,
                                        copy_(s.original_image, Fresh(s, 1))),
                       !.original_image = o,
                       !.history = Pop(s.history),
                       !.current_image = copy_(o, Fresh(s, 2))], o, FALSE)

\* undo
undo(s) ==
    IF s.history = <<>> THEN Result(s, None, FALSE)
    ELSE
      LET o == Top(s.history) IN
      Result([s EXCEPT !.redo_stack = Append(s.redo_stack,
                                        copy_(s.original_image, Fresh(s, 1))),
                       !.original_image = o,
                       !.history = Pop(s.history)], o, FALSE)

\* redo that forgets to put the current image on the history.
redo_drops_snapshot(s) ==
    IF s.redo_stack = <<>> THEN Result(s, None, FALSE)
    ELSE
      LET o == Top(s.redo_stack) IN
      Result([s EXCEPT !.original_image = o,
                       !.redo_stack = Pop(s.redo_stack)], o, FALSE)

\* redo
redo(s) ==
    IF s.redo_stack = <<>> THEN Result(s, None, FALSE)
    ELSE
      LET o == Top(s.redo_stack) IN
      Result([s EXCEPT !.history = Append(s.history,
                                        copy_(s.original_image, Fresh(s, 1))),
                       !.original_image = o,
                       !.redo_stack = Pop(s.redo_stack)], o, FALSE)

\* ------------------------------------------------- destructive operations
\* cv2.cvtColor(img, COLOR_RGB2GRAY) for 8-bit images: fixed-point luminance
\* (0.299 R + 0.587 G + 0.114 B, 15 fractional bits, rounded).
RY15 == 9798
GY15 == 19235
BY15 == 3735

Gray(p) == (p[1] * RY15 + p[2] * GY15 + p[3] * BY15 + 16384) \div 32768

\* The single-channel image as the sequence of its values.
cvtColor_RGB2GRAY(img) == [i \in 1..Len(img.px) |-> Gray(img.px[i])]

\* cv2.cvtColor(g, COLOR_GRAY2RGB): the value replicated on three channels.
cvtColor_GRAY2RGB(g, w, h, newid) ==
    [id |-> newid, w |-> w, h |-> h,
     px |-> [i \in 1..Len(g) |-> <<g[i], g[i], g[i]>>]]

\* cv2.Canny(gray, 100, 200): a map of the same size whose values are 0 or
\* 255. A pixel is an edge only if its gradient magnitude |dx| + |dy| of the
\* 3 x 3 Sobel operator exceeds the low threshold, and that magnitude is at
\* most 8 times the largest difference of two pixels: an image flatter than
\* that has no edge. Otherwise which pixels are edges is left open.
CannyLow == 100
CannyHigh == 200

Flat(g) == \A i, j \in 1..Len(g) : 8 * (g[i] - g[j]) <= CannyLow

Canny(gray) ==
    IF Flat(gray) THEN {[i \in 1..Len(gray) |-> 0]}
    ELSE [1..Len(gray) -> {0, 255}]

\* apply_canny_edge; edges is the map cv2.Canny returns. On an empty
\* processor cv2.cvtColor raises on None.
apply_canny_edge(s, edges) ==
    LET s1 == save_state_for_undo(s) IN
    IF s1.original_image = None THEN Result(s1, None, TRUE)
    ELSE
      LET o == cvtColor_GRAY2RGB(edges, s1.original_image.w,
                                 s1.original_image.h, Fresh(s1, 1))
      IN Result([s1 EXCEPT !.original_image = o], o, FALSE)

\* cv2.rotate(img, ROTATE_180): a half turn, which keeps the shape.
rotate_half_turn(img, newid) ==
    LET Src(x, y) == At(img, img.w - 1 - x, img.h - 1 - y)
    IN MkImage(newid, img.w, img.h, Src)

\* cv2.rotate(img, ROTATE_90_CLOCKWISE): destination (x, y) takes source
\* (y, h - 1 - x); width and height are exchanged.
rotate(img, newid) ==
    LET Src(x, y) == At(img, y, img.h - 1 - x)
    IN MkImage(newid, img.h, img.w, Src)

\* rotate_90
rotate_90(s) ==
    LET s1 == save_state_for_undo(s) IN
    IF s1.original_image = None THEN Result(s1, None, TRUE)
    ELSE
      LET o == rotate(s1.original_image, Fresh(s1, 1))
      IN Result([s1 EXCEPT !.original_image = o], o, FALSE)

\* cv2.flip(img, flipCode): 0 mirrors the rows (vertical flip), a positive
\* code mirrors the columns (horizontal flip), a negative code does both.
cv2_flip(img, flipCode, newid) ==
    LET Src(x, y) ==
          At(img, IF flipCode # 0 THEN img.w - 1 - x ELSE x,
                  IF flipCode <= 0 THEN img.h - 1 - y ELSE y)
    IN MkImage(newid, img.w, img.h, Src)

\* flip
flip(s, mode) ==
    LET s1 == save_state_for_undo(s) IN
    IF s1.original_image = None THEN Result(s1, None, TRUE)
    ELSE
      LET o == cv2_flip(s1.original_image, mode, Fresh(s1, 1))
      IN Result([s1 EXCEPT !.original_image = o], o, FALSE)

\* The codes the editor passes to flip: 1 is horizontal, 0 is vertical.
FlipModes == {0, 1}

\* ------------------------------------------------------------------- save
\* cv2.imwrite picks the encoder from the extension and raises when there is
\* none for it.
SavePaths == {"out.jpg", "out.xyz"}

\* save_file: the returned record carries, in ret, the BGR image handed to
\* cv2.imwrite (None when nothing is written); the method itself returns
\* nothing.
save_file(s, file_path) ==
    IF s.current_image = None THEN Result(s, None, FALSE)
    ELSE
      LET save_img == cvtColor_BGR2RGB(s.current_image, Fresh(s, 1))
      IN Result(s, save_img, file_path = "out.xyz")

\* --------------------------------------------------------- FilterSettings
\* contrast is kept in tenths (the slider's resolution is 0.1): 10 is 1.0.
DefaultSettings == [brightness |-> 0, blur |-> 0, contrast |-> 10,
                    scale |-> 100, grayscale |-> FALSE]

\* FilterSettings.reset
reset(settings) == [settings EXCEPT !.brightness = 0, !.blur = 0,
                                    !.contrast = 10, !.scale = 100,
                                    !.grayscale = FALSE]

\* The settings the model renders with (ranges of the widgets: brightness
\* -100..100, contrast 0.5..3.0, blur 0..20, scale 10..200): the defaults,
\* and two that between them exercise every stage of the pipeline. The
\* contrasts are exact binary fractions, so the float product of
\* convertScaleAbs is exact; the scales give whole resize ratios on the
\* model's images.
SettingsSet ==
    { DefaultSettings,
      [brightness |-> -100, blur |-> 0, contrast |-> 5, scale |-> 10,
       grayscale |-> TRUE],
      [brightness |-> 50, blur |-> 1, contrast |-> 30, scale |-> 200,
       grayscale |-> FALSE] }

\* The settings of the preview specification: slider positions from both
\* ends and the middle of each range. Scales 60 and 150 give sizes that are
\* no whole number before int() cuts them.
PreviewSettings ==
    [brightness : {-100, 0, 50}, blur : {0, 1}, contrast : {5, 10, 30},
     scale : {10, 50, 60, 100, 150, 200}, grayscale : BOOLEAN]

\* ------------------------------------------------------ preview pipeline
Min(a, b) == IF a < b THEN a ELSE b

\* cvRound of num/den (den > 0, num >= 0): nearest integer, ties to even.
RoundHalfEven(num, den) ==
    LET q == num \div den
        r2 == 2 * (num % den)
    IN IF r2 > den \/ (r2 = den /\ q % 2 = 1) THEN q + 1 ELSE q

\* cv2.convertScaleAbs on one channel: saturate_cast<uchar>(|v*alpha + beta|).
ScaleAbs(v, contrast, brightness) ==
    Min(255, RoundHalfEven(Abs(v * contrast + 10 * brightness), 10))

MapPx(img, newid, F(_)) ==
    [id |-> newid, w |-> img.w, h |-> img.h,
     px |-> [i \in 1..Len(img.px) |->
               <<F(img.px[i][1]), F(img.px[i][2]), F(img.px[i][3])>>]]

convertScaleAbs(img, contrast, brightness, newid) ==
    LET F(v) == ScaleAbs(v, contrast, brightness)
    IN MapPx(img, newid, F)

\* cv2.borderInterpolate(p, len, BORDER_REFLECT_101), for -len < p < 2*len.
Reflect101(p, len) ==
    IF len = 1 THEN 0
    ELSE IF p < 0 THEN -p
    ELSE IF p >= len THEN 2 * len - 2 - p
    ELSE p

\* cv2.GaussianBlur(img, (3, 3), 0) on 8-bit data: the separable kernel
\* (1/4, 1/2, 1/4) in fixed point, rounded once at the end.
Blur3At(img, x, y, c) ==
    LET P(dx, dy) == At(img, Reflect101(x + dx, img.w),
                             Reflect101(y + dy, img.h))[c]
        Row(dy) == P(-1, dy) + 2 * P(0, dy) + P(1, dy)
    IN (Row(-1) + 2 * Row(0) + Row(1) + 8) \div 16

GaussianBlur3(img, newid) ==
    LET F(x, y) == <<Blur3At(img, x, y, 1), Blur3At(img, x, y, 2),
                     Blur3At(img, x, y, 3)>>
    IN MkImage(newid, img.w, img.h, F)

\* The scaled size rounded to the nearest whole number, not cut.
ScaledDim_rounds(dim, scale) ==
    LET d == RoundHalfEven(dim * scale, 100) IN IF d < 1 THEN 1 ELSE d

\* Lines 105-110: int(dim * scale / 100), raised to 1 when it is 0.
ScaledDim(dim, scale) ==
    LET d == (dim * scale) \div 100 IN IF d < 1 THEN 1 ELSE d

\* The resize ratios the model covers: whole numbers in both directions.
WholeRatio(from, to) == from % to = 0 \/ to % from = 0

\* The settings whose preview of base the model computes: a 3 x 3 blur at
\* most, and whole resize ratios.
Modelled(base, settings) ==
    IF base = None THEN TRUE
    ELSE /\ settings.blur <= 1
         /\ WholeRatio(base.w, ScaledDim(base.w, settings.scale))
         /\ WholeRatio(base.h, ScaledDim(base.h, settings.scale))

\* One channel of cv2.resize(..., INTER_AREA) for whole ratios: enlarging
\* repeats the source pixel; shrinking averages the ix * iy source block
\* ((sum + 2) >> 2 for 2 x 2 blocks, cvRound(sum / area) otherwise).
AreaAt(img, w, h, x, y, c) ==
    IF w >= img.w /\ h >= img.h
    THEN At(img, (x * img.w) \div w, (y * img.h) \div h)[c]
    ELSE
      LET ix == img.w \div w
          iy == img.h \div h
          RECURSIVE Sum(_)
          Sum(k) == IF k = ix * iy THEN 0
                    ELSE At(img, x * ix + (k % ix), y * iy + (k \div ix))[c]
                         + Sum(k + 1)
      IN IF ix = 2 /\ iy = 2 THEN (Sum(0) + 2) \div 4
         ELSE RoundHalfEven(Sum(0), ix * iy)

resize(img, w, h, newid) ==
    LET F(x, y) == <<AreaAt(img, w, h, x, y, 1), AreaAt(img, w, h, x, y, 2),
                     AreaAt(img, w, h, x, y, 3)>>
    IN MkImage(newid, w, h, F)

\* The pipeline with a blur stage that runs whatever the blur setting is.
Pipeline_blurs_always(base, settings, newid) ==
    LET t0 == copy_(base, newid)
        t1 == IF settings.grayscale
              THEN cvtColor_GRAY2RGB(cvtColor_RGB2GRAY(t0), t0.w, t0.h, newid)
              ELSE t0
        t2 == convertScaleAbs(t1, settings.contrast, settings.brightness,
                              newid)
        t3 == GaussianBlur3(t2, newid)
    IN IF settings.scale # 100
       THEN resize(t3, ScaledDim(t3.w, settings.scale),
                   ScaledDim(t3.h, settings.scale), newid)
       ELSE t3

\* The preview computed by lines 87-112 from a base image.
Pipeline(base, settings, newid) ==
    LET t0 == copy_(base, newid)
        t1 == IF settings.grayscale
              THEN cvtColor_GRAY2RGB(cvtColor_RGB2GRAY(t0), t0.w, t0.h, newid)
              ELSE t0
        t2 == convertScaleAbs(t1, settings.contrast, settings.brightness,
                              newid)
        t3 == IF settings.blur > 0 THEN GaussianBlur3(t2, newid) ELSE t2
    IN IF settings.scale # 100
       THEN resize(t3, ScaledDim(t3.w, settings.scale),
                   ScaledDim(t3.h, settings.scale), newid)
       ELSE t3

\* apply_transformations that works on original_image itself, not a copy.
apply_transformations_in_place(s, settings) ==
    IF s.original_image = None THEN Result(s, None, FALSE)
    ELSE
      LET temp_img == Pipeline(s.original_image, settings, Fresh(s, 1))
      IN Result([s EXCEPT !.original_image = temp_img,
                          !.current_image = temp_img], temp_img, FALSE)

\* apply_transformations
apply_transformations(s, settings) ==
    IF s.original_image = None THEN Result(s, None, FALSE)
    ELSE
      LET temp_img == Pipeline(s.original_image, settings, Fresh(s, 1))
      IN Result([s EXCEPT !.current_image = temp_img], temp_img, FALSE)

\* ------------------------------------------------------------------ actions
\* Object identities matter only up to renaming, so after each call the
\* objects the processor refers to are renumbered 1, 2, ... in the order
\* true_original, original_image, current_image, history, redo_stack; a
\* returned object that the processor does not keep gets the next number.
Refs(s) == <<s.true_original, s.original_image, s.current_image>>
             \o s.history \o s.redo_stack

\* The identities of refs, without 0 and without repetition, in the order
\* of their first occurrence.
RECURSIVE Order(_, _, _)
Order(refs, k, seen) ==
    IF k > Len(refs) THEN seen
    ELSE IF refs[k].id = 0 \/ \E j \in 1..Len(seen) : seen[j] = refs[k].id
    THEN Order(refs, k + 1, seen)
    ELSE Order(refs, k + 1, Append(seen, refs[k].id))

Rank(order, i) ==
    IF i = 0 THEN 0
    ELSE IF \E j \in 1..Len(order) : order[j] = i
    THEN CHOOSE j \in 1..Len(order) : order[j] = i
    ELSE Len(order) + 1

Renumber(order, img) == [img EXCEPT !.id = Rank(order, img.id)]

RenumberAll(s, order) ==
    [true_original |-> Renumber(order, s.true_original),
     original_image |-> Renumber(order, s.original_image),
     current_image |-> Renumber(order, s.current_image),
     history |-> [i \in 1..Len(s.history) |-> Renumber(order, s.history[i])],
     redo_stack |-> [i \in 1..Len(s.redo_stack) |->
                       Renumber(order, s.redo_stack[i])]]

\* The values of the four sliders when the window is built (lines 208-222).
InitialSliders == [brightness |-> 0, blur |-> 0, contrast |-> 10,
                   scale |-> 100]

\* One step of the program: the processor fields take the values r.self;
\* op, ret and exc record what ran, what it returned and whether it raised;
\* before keeps the processor as it was when the step began; rendered is
\* the settings current_image was last computed for. The outcome and its
\* renumbering are bound once each.
Step(name, r, rd, st, sl) ==
    \E done \in {r} :
    \E order \in {Order(Refs(done.self), 1, <<>>)} :
    \E n \in {RenumberAll(done.self, order)} :
      /\ true_original' = n.true_original
      /\ original_image' = n.original_image
      /\ current_image' = n.current_image
      /\ history' = n.history
      /\ redo_stack' = n.redo_stack
      /\ self_settings' = st
      /\ sliders' = sl
      /\ op' = name
      /\ ret' = Renumber(order, done.ret)
      /\ exc' = done.exc
      /\ before' = Self
      /\ rendered' = rd

\* A method call on the processor by some caller: the editor's settings and
\* sliders are not involved. A load leaves current_image a copy of the new
\* original_image, which is its preview under the default settings.
Call(name, r) ==
    Step(name, r,
         IF name = "load_file" /\ ~r.exc THEN DefaultSettings ELSE rendered,
         self_settings, sliders)

Init ==
    /\ true_original = NewProcessor.true_original
    /\ original_image = NewProcessor.original_image
    /\ current_image = NewProcessor.current_image
    /\ history = NewProcessor.history
    /\ redo_stack = NewProcessor.redo_stack
    /\ self_settings = DefaultSettings
    /\ sliders = InitialSliders
    /\ op = "init"
    /\ ret = None
    /\ exc = FALSE
    /\ before = NewProcessor
    /\ rendered = DefaultSettings

Load == \E f \in Files : Call("load_file", load_file(Self, f))

Save == \E f \in SavePaths : Call("save_file", save_file(Self, f))

Revert == Call("revert_to_original", revert_to_original(Self))

Undo == Call("undo", undo(Self))

Redo == Call("redo", redo(Self))

\* A render by some caller with settings of its own.
RenderWith(settings) ==
    LET r == apply_transformations(Self, settings) IN
    /\ Modelled(original_image, settings)
    /\ Step("apply_transformations", r,
            IF r.ret # None THEN settings ELSE rendered,
            self_settings, sliders)

Render == \E settings \in SettingsSet : RenderWith(settings)

\* The three edits are explored while the history is shorter than MaxHist.
Canny_ ==
    /\ Len(history) < MaxHist
    /\ \E edges \in Canny(cvtColor_RGB2GRAY(original_image)) :
        Call("apply_canny_edge", apply_canny_edge(Self, edges))

Rotate ==
    /\ Len(history) < MaxHist
    /\ Call("rotate_90", rotate_90(Self))

Flip ==
    /\ Len(history) < MaxHist
    /\ \E mode \in FlipModes : Call("flip", flip(Self, mode))

Next ==
    \/ Load
    \/ Save
    \/ Revert
    \/ Undo
    \/ Redo
    \/ Render
    \/ Canny_
    \/ Rotate
    \/ Flip

Spec == Init /\ [][Next]_vars

\* ------------------------------------------- the preview and the rotation
\* A session that loads one picture, turns it up to MaxRot times and then
\* renders it once, with any of the preview settings.
PreviewLoad ==
    /\ true_original = None
    /\ \E f \in PreviewFiles : Call("load_file", load_file(Self, f))

PreviewRotate ==
    /\ true_original # None
    /\ op # "apply_transformations"
    /\ Len(history) < MaxRot
    /\ Call("rotate_90", rotate_90(Self))

PreviewRender ==
    /\ true_original # None
    /\ op # "apply_transformations"
    /\ \E settings \in PreviewSettings : RenderWith(settings)

NextPreview ==
    \/ PreviewLoad
    \/ PreviewRotate
    \/ PreviewRender

SpecPreview == Init /\ [][NextPreview]_vars

\* --------------------------------------------------------- ImageEditorApp
\* The editor as its handlers see it: the processor, self.settings, the
\* positions of the four sliders, and whether the handler was left by an
\* exception (which Tk reports, and the window lives on).
App == [processor |-> Self, settings |-> self_settings, sliders |-> sliders,
        rendered |-> rendered, exc |-> FALSE]

\* new_img = self.processor.apply_transformations(self.settings) followed by
\* update_display(new_img), which draws and stores nothing the model holds.
apply_and_display(a) ==
    LET r == apply_transformations(a.processor, a.settings) IN
    [a EXCEPT !.processor = r.self,
              !.rendered = IF r.ret # None THEN a.settings ELSE @]

\* reset_sliders
reset_sliders(a) ==
    apply_and_display([a EXCEPT !.settings = reset(a.settings),
                                !.sliders = InitialSliders])

\* open_image; file_path "" is a dialog closed without a choice.
open_image(a, file_path) ==
    IF file_path = "" THEN a
    ELSE
      LET r == load_file(a.processor, file_path) IN
      IF r.exc THEN [a EXCEPT !.processor = r.self, !.exc = TRUE]
      ELSE reset_sliders([a EXCEPT !.processor = r.self,
                                   !.rendered = DefaultSettings])

\* save_image
save_image(a, file_path) ==
    IF a.processor.current_image = None \/ file_path = "" THEN a
    ELSE
      LET r == save_file(a.processor, file_path) IN
      [a EXCEPT !.processor = r.self, !.exc = r.exc]

\* update_filters, called by Tk with the sliders at the positions pos.
update_filters(a, pos) ==
    apply_and_display(
      [a EXCEPT !.sliders = pos,
                !.settings = [@ EXCEPT !.brightness = pos.brightness,
                                       !.blur = pos.blur,
                                       !.contrast = pos.contrast,
                                       !.scale = pos.scale]])

\* toggle_bw
toggle_bw(a) ==
    apply_and_display([a EXCEPT !.settings.grayscale = ~@])

\* The lines shared by rotate_image, flip_image and apply_edge_detect: r is
\* the outcome of the processor's edit.
edit_and_display(a, r) ==
    IF r.exc THEN [a EXCEPT !.processor = r.self, !.exc = TRUE]
    ELSE apply_and_display([a EXCEPT !.processor = r.self])

\* rotate_image
rotate_image(a) == edit_and_display(a, rotate_90(a.processor))

\* flip_image
flip_image(a, mode) == edit_and_display(a, flip(a.processor, mode))

\* apply_edge_detect
apply_edge_detect(a, edges) ==
    edit_and_display(a, apply_canny_edge(a.processor, edges))

\* undo_action that does not render the restored image.
undo_action_without_render(a) ==
    [a EXCEPT !.processor = undo(a.processor).self]

\* undo_action
undo_action(a) ==
    LET r == undo(a.processor) IN
    IF r.ret # None THEN apply_and_display([a EXCEPT !.processor = r.self])
    ELSE [a EXCEPT !.processor = r.self]

\* redo_action
redo_action(a) ==
    LET r == redo(a.processor) IN
    IF r.ret # None THEN apply_and_display([a EXCEPT !.processor = r.self])
    ELSE [a EXCEPT !.processor = r.self]

\* revert_all
revert_all(a) ==
    LET r == revert_to_original(a.processor) IN
    IF r.ret # None THEN reset_sliders([a EXCEPT !.processor = r.self])
    ELSE [a EXCEPT !.processor = r.self]

\* The slider positions the user reaches: those of SettingsSet.
SliderPositions ==
    { [brightness |-> t.brightness, blur |-> t.blur,
       contrast |-> t.contrast, scale |-> t.scale] : t \in SettingsSet }

\* A handler has run to its end or to an exception.
Handled(name, a) ==
    Step(name, Result(a.processor, None, a.exc), a.rendered, a.settings,
         a.sliders)

OpenImage ==
    \E f \in Files \cup {""} : Handled("open_image", open_image(App, f))

SaveImage ==
    \E f \in SavePaths \cup {""} : Handled("save_image", save_image(App, f))

UpdateFilters ==
    \E pos \in SliderPositions :
        Handled("update_filters", update_filters(App, pos))

ToggleBw == Handled("toggle_bw", toggle_bw(App))

RotateImage ==
    /\ Len(history) < MaxHist
    /\ Handled("rotate_image", rotate_image(App))

FlipImage ==
    /\ Len(history) < MaxHist
    /\ \E mode \in FlipModes : Handled("flip_image", flip_image(App, mode))

ApplyEdgeDetect ==
    /\ Len(history) < MaxHist
    /\ \E edges \in Canny(cvtColor_RGB2GRAY(original_image)) :
          Handled("apply_edge_detect", apply_edge_detect(App, edges))

UndoAction == Handled("undo_action", undo_action(App))

RedoAction == Handled("redo_action", redo_action(App))

RevertAll == Handled("revert_all", revert_all(App))

ResetSliders == Handled("reset_sliders", reset_sliders(App))

NextApp ==
    \/ OpenImage
    \/ SaveImage
    \/ UpdateFilters
    \/ ToggleBw
    \/ RotateImage
    \/ FlipImage
    \/ ApplyEdgeDetect
    \/ UndoAction
    \/ RedoAction
    \/ RevertAll
    \/ ResetSliders

SpecApp == Init /\ [][NextApp]_vars

\* ------------------------------------------------------------------ claims
Loaded(s) == s.true_original # None

EditOps == {"rotate_90", "flip", "apply_canny_edge"}

\* The outcomes of the destructive edits called in state s.
Edits(s) ==
    {rotate_90(s)}
      \cup {flip(s, mode) : mode \in FlipModes}
      \cup {apply_canny_edge(s, edges) :
              edges \in Canny(cvtColor_RGB2GRAY(s.original_image))}

\* C1: a destructive edit (rotate_90, flip, apply_canny_edge) on a loaded
\* processor leaves redo_stack empty whatever it held, and a redo called
\* right after the edit returns None and changes nothing.
C1_EditClearsRedo ==
    /\ (op \in EditOps /\ Loaded(before)) => redo_stack = <<>>
    /\ Loaded(Self) =>
         \A e \in Edits(Self) :
            /\ ~e.exc
            /\ e.self.redo_stack = <<>>
            /\ redo(e.self) = Result(e.self, None, FALSE)

\* An edit has run on a processor whose redo_stack was not empty.
C1_Witness ==
    /\ op \in EditOps
    /\ Loaded(before)
    /\ before.redo_stack # <<>>
    /\ redo_stack = <<>>

\* C2: round trip. From every loaded state and for every destructive edit,
\* the edit followed by undo leaves original_image pixel-identical to what
\* it was before the edit, and a redo right after that undo leaves it
\* pixel-identical to the edited image.
C2_UndoRedoRoundTrip ==
    Loaded(Self) =>
      \A e \in Edits(Self) :
         LET u == undo(e.self)
             r == redo(u.self)
         IN /\ u.ret # None
            /\ Same(u.self.original_image, original_image)
            /\ Same(u.ret, original_image)
            /\ r.ret # None
            /\ Same(r.self.original_image, e.self.original_image)
            /\ Same(r.ret, e.self.original_image)

\* A redo has brought back an edit that changed the pixels.
C2_Witness ==
    /\ op = "redo"
    /\ ret # None
    /\ Same(ret, original_image)
    /\ ~Same(original_image, before.original_image)
    /\ Same(Top(history), before.original_image)

\* C3: undo with an empty history returns None and leaves true_original,
\* original_image, history and redo_stack (and current_image) unchanged.
C3_UndoOnEmptyHistory ==
    /\ history = <<>> => undo(Self) = Result(Self, None, FALSE)
    /\ (op = "undo" /\ before.history = <<>>) =>
          /\ ret = None
          /\ ~exc
          /\ Self = before

\* undo has been called on a loaded processor without history.
C3_Witness ==
    /\ op = "undo"
    /\ Loaded(before)
    /\ before.history = <<>>
    /\ ret = None

\* C4: a destructive edit on a loaded processor appends exactly one entry to
\* history, pixel-identical to original_image as it was before the edit, and
\* keeps the earlier entries and their order; and no call of any method
\* makes both history and redo_stack longer.
C4_EditPushesOneSnapshot ==
    /\ Loaded(Self) =>
         \A e \in Edits(Self) :
            /\ Len(e.self.history) = Len(history) + 1
            /\ Same(Top(e.self.history), original_image)
            /\ Pop(e.self.history) = history
    /\ ~(/\ Len(history) > Len(before.history)
         /\ Len(redo_stack) > Len(before.redo_stack))
    /\ op \in EditOps /\ Loaded(before) =>
         /\ Len(history) = Len(before.history) + 1
         /\ Same(Top(history), before.original_image)
         /\ SameSeq(Pop(history), before.history)

\* An edit has run on a processor that already had a history entry.
C4_Witness ==
    /\ op \in EditOps
    /\ Loaded(before)
    /\ before.history # <<>>
    /\ Len(history) = Len(before.history) + 1
    /\ ~Same(original_image, before.original_image)

\* C5: true_original changes only in a load_file that succeeds: every other
\* call (undo, redo, the edits, apply_transformations, save_file,
\* revert_to_original, a load_file that raises) leaves it as it was.
C5_SourceOnlySetByLoad ==
    (op # "load_file" \/ exc) => true_original = before.true_original

\* revert_to_original has run after edits and the source is what it was.
C5_Witness ==
    /\ op = "revert_to_original"
    /\ Loaded(before)
    /\ before.history # <<>>
    /\ ~Same(before.original_image, before.true_original)
    /\ true_original = before.true_original

\* C6: a load_file that succeeds, in any state, ends with true_original and
\* original_image both pixel-identical to the decoded picture and with
\* history and redo_stack empty, so undo and redo right after it both
\* return None.
C6_LoadResets ==
    /\ \A f \in Files :
          LET r == load_file(Self, f) IN
          Picture(f) # None =>
            /\ ~r.exc
            /\ Same(r.self.true_original, Picture(f))
            /\ Same(r.self.original_image, Picture(f))
            /\ r.self.history = <<>>
            /\ r.self.redo_stack = <<>>
            /\ undo(r.self).ret = None
            /\ redo(r.self).ret = None
    /\ (op = "load_file" /\ ~exc) =>
          /\ Same(original_image, true_original)
          /\ history = <<>>
          /\ redo_stack = <<>>

\* A load has succeeded on a processor with undo and redo entries.
C6_Witness ==
    /\ op = "load_file"
    /\ ~exc
    /\ before.history # <<>>
    /\ before.redo_stack # <<>>
    /\ history = <<>>
    /\ redo_stack = <<>>
    /\ ~Same(true_original, before.true_original)

\* C7: a load_file whose file cannot be decoded leaves the whole processor
\* as it was: true_original, original_image, current_image, history and
\* redo_stack, on an empty processor and on a loaded one with history.
C7_FailedLoadChangesNothing ==
    /\ \A f \in Files :
          Picture(f) = None => load_file(Self, f) = Result(Self, None, TRUE)
    /\ (op = "load_file" /\ exc) => Self = before

\* A load has failed on a loaded processor with undo and redo entries.
C7_Witness ==
    /\ op = "load_file"
    /\ exc
    /\ Loaded(before)
    /\ before.history # <<>>
    /\ before.redo_stack # <<>>
    /\ Self = before

\* C8: revert_to_original on a loaded processor ends with original_image
\* pixel-identical to true_original and with history and redo_stack empty;
\* an undo right after it returns None.
C8_RevertResets ==
    /\ Loaded(Self) =>
         LET r == revert_to_original(Self) IN
         /\ ~r.exc
         /\ Same(r.self.original_image, true_original)
         /\ Same(r.ret, true_original)
         /\ r.self.history = <<>>
         /\ r.self.redo_stack = <<>>
         /\ undo(r.self).ret = None
    /\ (op = "revert_to_original" /\ Loaded(before)) =>
         /\ Same(original_image, true_original)
         /\ history = <<>>
         /\ redo_stack = <<>>

\* revert_to_original has run on an edited image with undo and redo entries.
C8_Witness ==
    /\ op = "revert_to_original"
    /\ Loaded(before)
    /\ before.history # <<>>
    /\ before.redo_stack # <<>>
    /\ ~Same(before.original_image, before.true_original)
    /\ Same(original_image, true_original)

\* The outcomes of the methods other than load_file called in state s.
OtherCalls(s) ==
    Edits(s)
      \cup {save_file(s, f) : f \in SavePaths}
      \cup {revert_to_original(s), undo(s), redo(s)}
      \cup {apply_transformations(s, settings) : settings \in SettingsSet}

\* C9: on a processor that has not loaded an image, every method other than
\* load_file raises or returns None (save_file writes nothing) and changes
\* nothing: the three images stay None and both stacks stay empty.
C9_UnloadedCallsChangeNothing ==
    /\ ~Loaded(Self) =>
         /\ Self = NewProcessor
         /\ \A r \in OtherCalls(Self) :
               /\ r.self = Self
               /\ r.exc \/ r.ret = None
    /\ (~Loaded(before) /\ op \notin {"init", "load_file"}) =>
         /\ Self = NewProcessor
         /\ exc \/ ret = None

\* An edit has been called on the empty processor, and has raised.
C9_Witness ==
    /\ op \in EditOps
    /\ before = NewProcessor
    /\ exc
    /\ Self = NewProcessor

\* C10: apply_transformations writes current_image only: for every settings
\* value and every reachable state it leaves original_image, true_original,
\* history and redo_stack as they were, so an undo after it restores the
\* image it would have restored without it.
C10_RenderWritesPreviewOnly ==
    /\ \A settings \in SettingsSet :
          LET r == apply_transformations(Self, settings) IN
          /\ r.self = [Self EXCEPT !.current_image = r.self.current_image]
          /\ undo(r.self).ret = undo(Self).ret
          /\ undo(r.self).self.original_image = undo(Self).self.original_image
    /\ op = "apply_transformations" =>
          /\ original_image = before.original_image
          /\ true_original = before.true_original
          /\ history = before.history
          /\ redo_stack = before.redo_stack

\* A render has changed the preview of a processor with undo and redo
\* entries.
C10_Witness ==
    /\ op = "apply_transformations"
    /\ ret # None
    /\ before.history # <<>>
    /\ before.redo_stack # <<>>
    /\ ~Same(current_image, before.current_image)
    /\ ~Same(current_image, original_image)

\* C11: in every reachable state true_original, original_image,
\* current_image and every entry of history and redo_stack are pairwise
\* distinct objects: no two of them are the same array.
C11_SnapshotsAreDistinctObjects ==
    \A i, j \in 1..Len(Refs(Self)) :
       (i # j /\ Refs(Self)[i] # None) => Refs(Self)[i].id # Refs(Self)[j].id

\* A processor that holds all five kinds of reference: an undo has moved a
\* history entry into original_image and left entries on both stacks.
C11_Witness ==
    /\ op = "undo"
    /\ ret # None
    /\ history # <<>>
    /\ redo_stack # <<>>
    /\ Cardinality(Live(Self) \ {0}) = 3 + Len(history) + Len(redo_stack)

\* C17: once a load has succeeded the processor stays loaded: after every
\* later call true_original, original_image and current_image are all
\* present; and history or redo_stack hold entries only on a loaded
\* processor.
C17_LoadedForever ==
    /\ Loaded(before) => Loaded(Self)
    /\ Loaded(Self) => (original_image # None /\ current_image # None)
    /\ ~Loaded(Self) => (history = <<>> /\ redo_stack = <<>>)
    /\ \A r \in OtherCalls(Self) \cup {load_file(Self, f) : f \in Files} :
          /\ Loaded(Self) =>
               /\ r.self.true_original # None
               /\ r.self.original_image # None
               /\ r.self.current_image # None
          /\ ~Loaded(r.self) =>
               (r.self.history = <<>> /\ r.self.redo_stack = <<>>)

\* A load has failed on a loaded processor, which is still loaded.
C17_Witness ==
    /\ op = "load_file"
    /\ exc
    /\ Loaded(before)
    /\ Loaded(Self)
    /\ history # <<>>

\* The images of a processor along its one timeline: the history entries,
\* then original_image, then the redo entries from the top down.
Reverse(q) == [i \in 1..Len(q) |-> q[Len(q) + 1 - i]]

Timeline(s) == s.history \o <<s.original_image>> \o Reverse(s.redo_stack)

RECURSIVE UndoTimes(_, _)
UndoTimes(s, k) == IF k = 0 THEN s ELSE UndoTimes(undo(s).self, k - 1)

RECURSIVE RedoTimes(_, _)
RedoTimes(s, k) == IF k = 0 THEN s ELSE RedoTimes(redo(s).self, k - 1)

\* C18: undo and redo move a cursor along one timeline. An undo that
\* succeeds makes history one shorter and redo_stack one longer, a redo does
\* the reverse, and both keep the content of the timeline; after load, one
\* edit and undo the stacks have sizes (0, 1), after one more redo (1, 0);
\* and k undos followed by k redos restore original_image and both stacks.
C18_LinearHistory ==
    /\ history # <<>> =>
         LET u == undo(Self).self IN
         /\ Len(u.history) = Len(history) - 1
         /\ Len(u.redo_stack) = Len(redo_stack) + 1
         /\ SameSeq(Timeline(u), Timeline(Self))
    /\ redo_stack # <<>> =>
         LET r == redo(Self).self IN
         /\ Len(r.history) = Len(history) + 1
         /\ Len(r.redo_stack) = Len(redo_stack) - 1
         /\ SameSeq(Timeline(r), Timeline(Self))
    /\ (op = "load_file" /\ ~exc) =>
         \A e \in Edits(Self) :
            LET u == undo(e.self).self
                r == redo(u).self
            IN /\ Len(u.history) = 0 /\ Len(u.redo_stack) = 1
               /\ Len(r.history) = 1 /\ Len(r.redo_stack) = 0
    /\ \A k \in 1..Len(history) :
          LET r == RedoTimes(UndoTimes(Self, k), k) IN
          /\ Same(r.original_image, original_image)
          /\ SameSeq(r.history, history)
          /\ SameSeq(r.redo_stack, redo_stack)

\* A redo has moved the cursor forward in a timeline that still has entries
\* on both sides of it.
C18_Witness ==
    /\ op = "redo"
    /\ ret # None
    /\ Len(history) = Len(before.history) + 1
    /\ Len(redo_stack) = Len(before.redo_stack) - 1
    /\ redo_stack # <<>>
    /\ SameSeq(Timeline(Self), Timeline(before))

\* The methods that change original_image or the stacks without rendering.
BaseOps == EditOps \cup {"undo", "redo", "revert_to_original"}

\* C16 as stated: on a loaded processor current_image, the image save_file
\* writes, is always the preview of the present original_image under the
\* settings last rendered (the defaults after a load), whatever methods
\* were called; and save_file changes nothing.
C16_PreviewFollowsBase ==
    /\ (Loaded(Self) /\ Modelled(original_image, rendered)) =>
          Same(current_image, Pipeline(original_image, rendered, 1))
    /\ op = "save_file" => Self = before

\* C16 amended: current_image is written by load_file and by
\* apply_transformations only. After a load it is a copy of the new
\* original_image, which is the default preview; after a render with
\* settings s it is the preview of original_image under s; rotate_90, flip,
\* apply_canny_edge, undo, redo and revert_to_original leave it as it was,
\* a preview of the former original_image, until the caller renders again;
\* and save_file writes it and changes nothing.
C16_PreviewWrittenByLoadAndRender ==
    /\ (op = "load_file" /\ ~exc) =>
          /\ rendered = DefaultSettings
          /\ Same(current_image, original_image)
          /\ Same(current_image, Pipeline(original_image, rendered, 1))
    /\ (op = "apply_transformations" /\ ret # None) =>
          /\ Same(current_image, Pipeline(original_image, rendered, 1))
          /\ Same(ret, current_image)
    /\ op \in BaseOps =>
          /\ Same(current_image, before.current_image)
          /\ (Loaded(before) /\ Modelled(before.original_image, rendered)
              /\ Same(before.current_image,
                      Pipeline(before.original_image, rendered, 1))) =>
                Same(current_image,
                     Pipeline(before.original_image, rendered, 1))
    /\ op = "save_file" =>
          /\ Self = before
          /\ (Loaded(Self) /\ ~exc) =>
                Same(ret, cvtColor_BGR2RGB(current_image, 1))

\* An undo after a render has put back an original_image of another shape
\* and left the preview of the undone one in current_image.
C16_Witness ==
    /\ op = "undo"
    /\ ret # None
    /\ rendered # DefaultSettings
    /\ original_image.w # before.original_image.w
    /\ Same(current_image, Pipeline(before.original_image, rendered, 1))
    /\ ~Same(current_image, Pipeline(original_image, rendered, 1))

\* A render of the brightness and contrast stage alone has returned.
AffineOnly ==
    /\ op = "apply_transformations"
    /\ ret # None
    /\ ~rendered.grayscale
    /\ rendered.blur = 0
    /\ rendered.scale = 100

\* contrast * v + brightness in tenths, cut to the range 0..255.
ClampedTenths(v, contrast, brightness) ==
    LET t == v * contrast + 10 * brightness
    IN IF t < 0 THEN 0 ELSE IF t > 2550 THEN 2550 ELSE t

\* C12 as stated: with grayscale off, blur 0 and scale 100 the preview of
\* a channel value v is clamp(contrast * v + brightness, 0, 255), a value
\* below 0 becoming 0 and a value above 255 becoming 255 (whichever way a
\* fraction is rounded).
C12_ClampedAffine ==
    AffineOnly =>
       /\ current_image.w = original_image.w
       /\ current_image.h = original_image.h
       /\ \A i \in 1..Len(current_image.px) : \A c \in 1..3 :
             Abs(10 * current_image.px[i][c]
                 - ClampedTenths(original_image.px[i][c], rendered.contrast,
                                 rendered.brightness)) < 10

\* What the code does in place of C12: the preview of a channel value is
\* the magnitude of contrast * v + brightness, cut at 255.
C12_MagnitudeNotClamp ==
    AffineOnly =>
       \A i \in 1..Len(current_image.px) : \A c \in 1..3 :
          LET t == original_image.px[i][c] * rendered.contrast
                     + 10 * rendered.brightness
          IN Abs(10 * current_image.px[i][c]
                 - (IF Abs(t) > 2550 THEN 2550 ELSE Abs(t))) <= 5

\* Python's round(dim * scale / 100), at least 1.
RoundedDim(dim, scale) ==
    IF RoundHalfEven(dim * scale, 100) < 1 THEN 1
    ELSE RoundHalfEven(dim * scale, 100)

Rendered == op = "apply_transformations" /\ ret # None

\* C13 as stated: a render with scale # 100 returns an image of width
\* max(1, round(w * scale / 100)) and height max(1, round(h * scale / 100)),
\* w x h being the shape of original_image; with scale = 100 it returns an
\* image of the shape of original_image.
C13_RoundedDimensions ==
    Rendered =>
       /\ ret.w = RoundedDim(original_image.w, rendered.scale)
       /\ ret.h = RoundedDim(original_image.h, rendered.scale)

\* d is dim * scale / 100 cut to a whole number, or 1 when that is 0.
IsCutDim(d, dim, scale) ==
    IF dim * scale < 100 THEN d = 1
    ELSE 100 * d <= dim * scale /\ dim * scale < 100 * (d + 1)

\* C13 amended: a render with scale # 100 returns an image of width
\* max(1, floor(w * scale / 100)) and height max(1, floor(h * scale / 100));
\* with scale = 100 it returns an image of the shape of original_image.
C13_TruncatedDimensions ==
    Rendered =>
       /\ IsCutDim(ret.w, original_image.w, rendered.scale)
       /\ IsCutDim(ret.h, original_image.h, rendered.scale)
       /\ Len(ret.px) = ret.w * ret.h
       /\ rendered.scale = 100 =>
            (ret.w = original_image.w /\ ret.h = original_image.h)

\* A render at scale 60 has cut the width 3 * 60 / 100 = 1.8 of the strip
\* to 1, where rounding gives 2.
C13_Witness ==
    /\ Rendered
    /\ rendered.scale = 60
    /\ original_image.w * rendered.scale = 180
    /\ ret.w = 1
    /\ RoundedDim(original_image.w, rendered.scale) = 2

\* C14: under the default settings (brightness 0, contrast 1.0, blur 0,
\* scale 100, grayscale off), which are also what FilterSettings.reset()
\* leaves, the preview has the shape and the pixels of original_image.
C14_DefaultPreviewIsBase ==
    /\ DefaultSettings = [brightness |-> 0, blur |-> 0, contrast |-> 10,
                          scale |-> 100, grayscale |-> FALSE]
    /\ \A settings \in PreviewSettings : reset(settings) = DefaultSettings
    /\ Loaded(Self) =>
         /\ Same(Pipeline(original_image, DefaultSettings, 1), original_image)
         /\ Same(apply_transformations(Self, DefaultSettings).ret,
                 original_image)
    /\ (Rendered /\ rendered = DefaultSettings) =>
         Same(current_image, original_image)

\* The default render of a turned picture of several colours.
C14_Witness ==
    /\ Rendered
    /\ rendered = DefaultSettings
    /\ history # <<>>
    /\ Len(original_image.px) > 1
    /\ original_image.px[1] # original_image.px[2]
    /\ Same(current_image, original_image)

RECURSIVE RotateTimes(_, _)
RotateTimes(s, k) ==
    IF k = 0 THEN s ELSE RotateTimes(rotate_90(s).self, k - 1)

\* C15: rotate_90 exchanges the width and the height of original_image,
\* and four rotate_90 calls in a row leave original_image with the shape
\* and the pixels it had, square or not.
C15_FourQuarterTurns ==
    /\ (op = "rotate_90" /\ Loaded(before)) =>
          /\ original_image.w = before.original_image.h
          /\ original_image.h = before.original_image.w
    /\ Loaded(Self) =>
          /\ rotate_90(Self).self.original_image.w = original_image.h
          /\ rotate_90(Self).self.original_image.h = original_image.w
          /\ Same(RotateTimes(Self, 4).original_image, original_image)
    /\ (op = "rotate_90" /\ Len(history) >= 4) =>
          Same(original_image, history[Len(history) - 3])

\* The fourth quarter turn of a picture that is not square has brought back
\* the picture as loaded, which the turns before it had changed.
C15_Witness ==
    /\ op = "rotate_90"
    /\ Len(history) = 4
    /\ original_image.w # original_image.h
    /\ Same(original_image, history[1])
    /\ Same(original_image, true_original)
    /\ ~Same(original_image, history[2])
    /\ ~Same(original_image, history[3])

\* C19: in the editor, after any sequence of handlers with an image loaded,
\* current_image is apply_transformations of the present original_image
\* under the present settings, which agree with the sliders, so Save writes
\* the picture on display; and a handler whose processor call returns None
\* (nothing to undo or redo, nothing loaded) leaves current_image as it was.
C19_HandlersKeepPreviewFresh ==
    /\ Loaded(Self) =>
         /\ Modelled(original_image, self_settings)
         /\ rendered = self_settings
         /\ Same(current_image, Pipeline(original_image, self_settings, 1))
         /\ Same(current_image,
                 apply_transformations(Self, self_settings).ret)
         /\ \A f \in SavePaths :
               Same(save_file(Self, f).ret,
                    cvtColor_BGR2RGB(Pipeline(original_image, self_settings,
                                              1), 1))
    /\ sliders = [brightness |-> self_settings.brightness,
                  blur |-> self_settings.blur,
                  contrast |-> self_settings.contrast,
                  scale |-> self_settings.scale]
    /\ (op = "undo_action" /\ undo(before).ret = None) =>
          current_image = before.current_image
    /\ (op = "redo_action" /\ redo(before).ret = None) =>
          current_image = before.current_image
    /\ (op = "revert_all" /\ revert_to_original(before).ret = None) =>
          current_image = before.current_image
    /\ (op \notin {"init", "open_image"} /\ ~Loaded(before)) =>
          current_image = None

\* An undo handler has put back an image of another shape while the
\* settings were not the defaults, and the preview is of the image put back.
C19_Witness ==
    /\ op = "undo_action"
    /\ undo(before).ret # None
    /\ self_settings # DefaultSettings
    /\ original_image.w # before.original_image.w
    /\ redo_stack # <<>>
    /\ ~Same(current_image, before.current_image)
    /\ Same(current_image, Pipeline(original_image, self_settings, 1))

====
